---- MODULE Spec2Model ----
(***************************************************************************)
(* Model of the incremental weather-data fetcher (the "Optimized" script, *)
(* src/unnamed/part_001): fetchSensor's retry loop and main's per-sensor  *)
(* loop over the Firebase store (sensorData/<key>/data, recordCount and   *)
(* sensorMeta/<key>).  One action per step between two awaits of main.    *)
(* Wall-clock fields (lastUpdated, fetchedAt) and the constant fields of  *)
(* a record (sensorKey, unit) are not modelled: no step reads them.       *)
(***************************************************************************)
EXTENDS Integers, Sequences, FiniteSets, TLC

\* ---- bounds of the model ----
NumSensors == 2
MaxTs == 2
MaxVal == 2
MaxFetch == 2

\* ---- program constants ----
retries == 3

\* The store refuses an update that would grow a log beyond MaxLog records
\* (a write failure, which the code must tolerate at any time anyway).
MaxLog == MaxTs

Sensors == 1..NumSensors
Timestamps == 1..MaxTs
Values == 1..MaxVal
Reading == [timestamp : Timestamps, value : Values]

\* What upstream can answer to one successful request: any list of readings.
Responses == UNION {[1..n -> Reading] : n \in 0..MaxFetch}

VARIABLES
  sensorData,       \* sensorData/<key>/data : index -> record, per sensor
  recordCount,      \* sensorData/<key>/recordCount, for the keys that exist
  sensorMeta,       \* sensorMeta/<key> = {lastTimestamp, latestValue}
  pc,               \* position of main
  lastTimestamps,   \* the watermarks main loaded at the start of the run
  i,                \* loop index of main (1-based position in sensorKeys)
  attempt,          \* loop index of fetchSensor
  result,           \* what fetchSensor returned
  trulyNewRecords,
  newTimestamps,
  latestValues,
  currentCount,
  totalNewRecords,
  successfulSensors,
  exitCode,
  configOk,         \* the environment variables are set and Firebase initialised
  metadataWrite,    \* this run's write of weatherData/metadata: none, ok, failed
  storeReads,       \* history: the once('value') reads this run has issued
  rateLimited,      \* history: the 429 answers of the fetchSensor call under way
  waitTime,         \* the delay fetchSensor's last request was followed by, in ms
  startCount,       \* history: every sensor's recordCount when the process started
  other,            \* a second run of the script, at its append of one sensor
  oldData           \* the log the earlier full-read script builds from the same answers

vars == <<sensorData, recordCount, sensorMeta, pc, lastTimestamps, i, attempt,
          result, trulyNewRecords, newTimestamps, latestValues, currentCount,
          totalNewRecords, successfulSensors, exitCode, configOk,
          metadataWrite, storeReads, rateLimited, waitTime, startCount,
          other, oldData>>

store == <<sensorData, recordCount, sensorMeta>>
locals == <<lastTimestamps, i, attempt, result, trulyNewRecords, newTimestamps,
            latestValues, currentCount, totalNewRecords, successfulSensors,
            storeReads, rateLimited, waitTime>>

\* What this run of the script never touches.
beside == <<other, oldData>>

\* A JS object with no keys.
EmptyObject == <<>>

\* obj[key] = val on a JS object (adds the key when absent).
SetKey(obj, key, val) ==
  [k \in (DOMAIN obj) \cup {key} |-> IF k = key THEN val ELSE obj[k]]

\* fetchSensor's return values: a result object, or undefined.
NoResult == [defined |-> FALSE, data |-> <<>>, error |-> FALSE]
OkResult(records) == [defined |-> TRUE, data |-> records, error |-> FALSE]
ErrorResult == [defined |-> TRUE, data |-> <<>>, error |-> TRUE]

\* lastTimestamps[sensorKey]?.lastTimestamp || 0
LastTs(metas, s) == IF s \in DOMAIN metas THEN metas[s].lastTimestamp ELSE 0

\* (mutant) the filter with >= instead of >.
FilterNewInclusive(newRecords, lastTs) ==
  SelectSeq(newRecords, LAMBDA r : r.timestamp >= lastTs)

\* newRecords.filter(r => r.timestamp > lastTs)
FilterNew(newRecords, lastTs) ==
  SelectSeq(newRecords, LAMBDA r : r.timestamp > lastTs)

\* Array.prototype.sort((a, b) => a.timestamp - b.timestamp): stable, ascending.
RECURSIVE SortByTimestamp(_)
InsertSorted(sorted, r) ==
  LET before == SelectSeq(sorted, LAMBDA x : x.timestamp <= r.timestamp)
      after == SelectSeq(sorted, LAMBDA x : x.timestamp > r.timestamp)
  IN before \o <<r>> \o after
SortByTimestamp(records) ==
  IF records = <<>> THEN <<>>
  ELSE InsertSorted(SortByTimestamp(SubSeq(records, 1, Len(records) - 1)),
                    records[Len(records)])

\* trulyNewRecords after the filter and the sort.
Increment(newRecords, lastTs) == SortByTimestamp(FilterNew(newRecords, lastTs))

\* (mutant) the first record of the sorted increment taken as the newest.
NewestRecordFirst(sorted) == sorted[1]

\* newestRecord = trulyNewRecords[trulyNewRecords.length - 1]
NewestRecord(sorted) == sorted[Len(sorted)]

\* newTimestamps[sensorKey] (lastUpdated left out).
NewWatermark(sorted) ==
  [lastTimestamp |-> NewestRecord(sorted).timestamp,
   latestValue |-> NewestRecord(sorted).value]

\* const waitTime = Math.pow(2, attempt) * 2000
rateLimitBase == 2000
RateLimitWait(n) == (2 ^ n) * rateLimitBase

\* await delay(1000) in the catch
errorDelay == 1000

\* The second run before it has read a count.
OtherIdle == [pc |-> "idle", sensor |-> 1, currentCount |-> 0,
              trulyNewRecords |-> <<>>]

\* recordCount of every sensor as a process finds it.
CountSnapshot ==
  [s \in Sensors |-> IF s \in DOMAIN recordCount THEN recordCount[s] ELSE 0]

\* No read issued yet: of sensorMeta, of a log's data, of each recordCount.
NoReads == [meta |-> 0, data |-> 0, count |-> [s \in Sensors |-> 0]]

Init ==
  /\ sensorData = [s \in Sensors |-> EmptyObject]
  /\ recordCount = EmptyObject
  /\ sensorMeta = EmptyObject
  /\ pc = "idle"
  /\ lastTimestamps = EmptyObject
  /\ i = 1
  /\ attempt = 0
  /\ result = NoResult
  /\ trulyNewRecords = <<>>
  /\ newTimestamps = EmptyObject
  /\ latestValues = EmptyObject
  /\ currentCount = 0
  /\ totalNewRecords = 0
  /\ successfulSensors = 0
  /\ exitCode = 0
  /\ configOk = TRUE
  /\ metadataWrite = "none"
  /\ storeReads = NoReads
  /\ rateLimited = 0
  /\ waitTime = 0
  /\ startCount = [s \in Sensors |-> 0]
  /\ other = OtherIdle
  /\ oldData = [s \in Sensors |-> <<>>]

\* The fresh locals of a new process.
ResetLocals ==
  /\ lastTimestamps' = EmptyObject
  /\ i' = 1
  /\ attempt' = 0
  /\ result' = NoResult
  /\ trulyNewRecords' = <<>>
  /\ newTimestamps' = EmptyObject
  /\ latestValues' = EmptyObject
  /\ currentCount' = 0
  /\ totalNewRecords' = 0
  /\ successfulSensors' = 0
  /\ storeReads' = NoReads
  /\ rateLimited' = 0
  /\ waitTime' = 0

\* The scheduler starts the script; the configuration checks pass.
StartRun ==
  /\ pc \in {"idle", "exited"}
  /\ pc' = "loadMeta"
  /\ exitCode' = 0
  /\ configOk' = TRUE
  /\ metadataWrite' = "none"
  /\ ResetLocals
  /\ UNCHANGED store
  /\ startCount' = CountSnapshot
  /\ UNCHANGED beside

\* A required environment variable is missing or Firebase Admin cannot be
\* initialised: process.exit(1) before any network activity.
ConfigFail ==
  /\ pc \in {"idle", "exited"}
  /\ pc' = "exited"
  /\ exitCode' = 1
  /\ configOk' = FALSE
  /\ metadataWrite' = "none"
  /\ ResetLocals
  /\ UNCHANGED store
  /\ startCount' = CountSnapshot
  /\ UNCHANGED beside

\* database.ref('sensorMeta').once('value') answers.
LoadMetaOk ==
  /\ pc = "loadMeta"
  /\ lastTimestamps' = sensorMeta
  /\ storeReads' = [storeReads EXCEPT !.meta = @ + 1]
  /\ pc' = "fetch"
  /\ UNCHANGED <<store, i, attempt, result, trulyNewRecords, newTimestamps,
                 latestValues, currentCount, totalNewRecords,
                 successfulSensors, exitCode, configOk, metadataWrite,
                 rateLimited, waitTime, startCount, beside>>

\* The bulk read throws: the catch keeps lastTimestamps = {}.
LoadMetaFail ==
  /\ pc = "loadMeta"
  /\ lastTimestamps' = EmptyObject
  /\ storeReads' = [storeReads EXCEPT !.meta = @ + 1]
  /\ pc' = "fetch"
  /\ UNCHANGED <<store, i, attempt, result, trulyNewRecords, newTimestamps,
                 latestValues, currentCount, totalNewRecords,
                 successfulSensors, exitCode, configOk, metadataWrite,
                 rateLimited, waitTime, startCount, beside>>

\* ---- fetchSensor: one request per attempt, attempt = 0 .. retries-1 ----
\* (attempt is fetchSensor's own variable: it is gone, here 0, after the return)

\* response.status === 429: wait, continue.  When that was the last attempt
\* the for loop ends and the function returns nothing.
FetchRateLimited ==
  /\ pc = "fetch"
  /\ attempt < retries
  /\ waitTime' = RateLimitWait(attempt)
  /\ IF attempt + 1 < retries
       THEN /\ pc' = "fetch"
            /\ attempt' = attempt + 1
            /\ rateLimited' = rateLimited + 1
            /\ result' = result
       ELSE /\ pc' = "fetched"
            /\ attempt' = 0
            /\ rateLimited' = 0
            /\ result' = NoResult
  /\ UNCHANGED <<store, lastTimestamps, i, trulyNewRecords, newTimestamps,
                 latestValues, currentCount, totalNewRecords,
                 successfulSensors, exitCode, configOk,
                 metadataWrite, storeReads, startCount, beside>>

\* fetch rejects, the status is not ok, or response.json() throws: the catch
\* returns the error result on the last attempt and retries otherwise.
FetchThrows ==
  /\ pc = "fetch"
  /\ attempt < retries
  /\ IF attempt = retries - 1
       THEN /\ pc' = "fetched"
            /\ result' = ErrorResult
            /\ attempt' = 0
            /\ rateLimited' = 0
            /\ waitTime' = 0
       ELSE /\ pc' = "fetch"
            /\ result' = result
            /\ attempt' = attempt + 1
            /\ rateLimited' = rateLimited
            /\ waitTime' = errorDelay
  /\ UNCHANGED <<store, lastTimestamps, i, trulyNewRecords, newTimestamps,
                 latestValues, currentCount, totalNewRecords,
                 successfulSensors, exitCode, configOk,
                 metadataWrite, storeReads, startCount, beside>>

\* A 2xx answer carrying `records`.
FetchOk(records) ==
  /\ pc = "fetch"
  /\ attempt < retries
  /\ pc' = "fetched"
  /\ result' = OkResult(records)
  /\ attempt' = 0
  /\ rateLimited' = 0
  /\ waitTime' = 0
  /\ UNCHANGED <<store, lastTimestamps, i, trulyNewRecords,
                 newTimestamps, latestValues, currentCount, totalNewRecords,
                 successfulSensors, exitCode, configOk,
                 metadataWrite, storeReads, startCount, beside>>

\* ---- main: the per-sensor loop ----

\* delay(200), then the next iteration (or the end of the loop).
Advance ==
  /\ i' = i + 1
  /\ attempt' = 0
  /\ rateLimited' = 0
  /\ waitTime' = 0
  /\ result' = NoResult
  /\ trulyNewRecords' = <<>>
  /\ currentCount' = 0
  /\ pc' = IF i + 1 > NumSensors THEN "metadata" ELSE "fetch"

\* result.data of undefined: the TypeError rejects main(), whose catch handler
\* calls process.exit(1).
ResultUndefined ==
  /\ pc = "fetched"
  /\ ~result.defined
  /\ pc' = "exited"
  /\ exitCode' = 1
  /\ UNCHANGED <<store, locals, configOk, metadataWrite, startCount, beside>>

\* (mutant) the empty-fetch branch without the "keep existing latest value".
NoRecordsSilent ==
  /\ pc = "fetched"
  /\ result.defined
  /\ Len(result.data) = 0
  /\ Advance
  /\ UNCHANGED <<store, lastTimestamps, newTimestamps, latestValues,
                 totalNewRecords, successfulSensors, exitCode, configOk,
                 metadataWrite, storeReads, startCount, beside>>

\* newRecords.length === 0: keep the loaded latest value, if there is one.
NoRecords ==
  /\ pc = "fetched"
  /\ result.defined
  /\ Len(result.data) = 0
  /\ IF i \in DOMAIN lastTimestamps
       THEN /\ latestValues' = SetKey(latestValues, i, lastTimestamps[i].latestValue)
            /\ successfulSensors' = successfulSensors + 1
       ELSE UNCHANGED <<latestValues, successfulSensors>>
  /\ Advance
  /\ UNCHANGED <<store, lastTimestamps, newTimestamps, totalNewRecords, exitCode, configOk,
                 metadataWrite, storeReads, startCount, beside>>

\* trulyNewRecords.length === 0: report the value of the last fetched record.
NoNewRecords ==
  /\ pc = "fetched"
  /\ result.defined
  /\ Len(result.data) > 0
  /\ FilterNew(result.data, LastTs(lastTimestamps, i)) = <<>>
  /\ latestValues' = SetKey(latestValues, i, result.data[Len(result.data)].value)
  /\ successfulSensors' = successfulSensors + 1
  /\ Advance
  /\ UNCHANGED <<store, lastTimestamps, newTimestamps, totalNewRecords, exitCode, configOk,
                 metadataWrite, storeReads, startCount, beside>>

\* Filter, sort, newestRecord, latestValues and newTimestamps; then the
\* recordCount read is issued.
Merge ==
  /\ pc = "fetched"
  /\ result.defined
  /\ FilterNew(result.data, LastTs(lastTimestamps, i)) # <<>>
  /\ LET sorted == Increment(result.data, LastTs(lastTimestamps, i))
     IN /\ trulyNewRecords' = sorted
        /\ latestValues' = SetKey(latestValues, i, NewestRecord(sorted).value)
        /\ newTimestamps' = SetKey(newTimestamps, i, NewWatermark(sorted))
  /\ pc' = "readCount"
  /\ UNCHANGED <<store, lastTimestamps, i, attempt, result, currentCount,
                 totalNewRecords, successfulSensors, exitCode, configOk,
                 metadataWrite, storeReads, rateLimited,
                 waitTime, startCount, beside>>

\* (mutant) the count taken from a read of the whole log, as the script did
\* before it kept recordCount.
ReadCountFromLog ==
  /\ pc = "readCount"
  /\ currentCount' = Cardinality(DOMAIN sensorData[i])
  /\ storeReads' = [storeReads EXCEPT !.data = @ + 1]
  /\ pc' = "update"
  /\ UNCHANGED <<store, lastTimestamps, i, attempt, result, trulyNewRecords,
                 newTimestamps, latestValues, totalNewRecords,
                 successfulSensors, exitCode, configOk, metadataWrite,
                 rateLimited, waitTime, startCount, beside>>

\* countSnapshot.exists() ? countSnapshot.val() : 0
ReadCountOk ==
  /\ pc = "readCount"
  /\ currentCount' = IF i \in DOMAIN recordCount THEN recordCount[i] ELSE 0
  /\ storeReads' = [storeReads EXCEPT !.count[i] = @ + 1]
  /\ pc' = "update"
  /\ UNCHANGED <<store, lastTimestamps, i, attempt, result, trulyNewRecords,
                 newTimestamps, latestValues, totalNewRecords,
                 successfulSensors, exitCode, configOk, metadataWrite,
                 rateLimited, waitTime, startCount, beside>>

\* The recordCount read throws: caught, logged, next sensor.
ReadCountFail ==
  /\ pc = "readCount"
  /\ storeReads' = [storeReads EXCEPT !.count[i] = @ + 1]
  /\ Advance
  /\ UNCHANGED <<store, lastTimestamps, newTimestamps, latestValues,
                 totalNewRecords, successfulSensors, exitCode, configOk,
                 metadataWrite, startCount, beside>>

\* (mutant) the records written one position too far.
AppendAtOffByOne(data, count, records) ==
  [k \in (DOMAIN data) \cup {count + idx : idx \in 1..Len(records)} |->
     IF k > count /\ k <= count + Len(records)
       THEN records[k - count]
       ELSE data[k]]

\* The `updates` object applied to sensorData/<key>/data.
AppendAt(data, count, records) ==
  [k \in (DOMAIN data) \cup {count + idx - 1 : idx \in 1..Len(records)} |->
     IF k >= count /\ k < count + Len(records)
       THEN records[k - count + 1]
       ELSE data[k]]

\* (mutant) the count advanced by one, whatever the number of records.
NewCountByOne(count, records) == count + 1

\* recordCount written by the update.
NewCount(count, records) == count + Len(records)

\* database.ref().update(updates): one atomic multi-location write of the
\* records, the count and the watermark.
UpdateOk ==
  /\ pc = "update"
  /\ NewCount(currentCount, trulyNewRecords) <= MaxLog
  /\ sensorData' = [sensorData EXCEPT
                      ![i] = AppendAt(@, currentCount, trulyNewRecords)]
  /\ recordCount' = SetKey(recordCount, i, NewCount(currentCount, trulyNewRecords))
  /\ sensorMeta' = SetKey(sensorMeta, i, newTimestamps[i])
  /\ totalNewRecords' = totalNewRecords + Len(trulyNewRecords)
  /\ successfulSensors' = successfulSensors + 1
  /\ Advance
  /\ UNCHANGED <<lastTimestamps, newTimestamps, latestValues, exitCode, configOk,
                 metadataWrite, storeReads, startCount, beside>>

\* (mutant) a failing update that has already written the watermark.
UpdateFailAfterMeta ==
  /\ pc = "update"
  /\ sensorMeta' = SetKey(sensorMeta, i, newTimestamps[i])
  /\ Advance
  /\ UNCHANGED <<sensorData, recordCount, lastTimestamps, newTimestamps,
                 latestValues, totalNewRecords, successfulSensors, exitCode, configOk,
                 metadataWrite, storeReads, startCount, beside>>

\* (mutant) a failing update whose records are counted all the same.
UpdateFailCounted ==
  /\ pc = "update"
  /\ totalNewRecords' = totalNewRecords + Len(trulyNewRecords)
  /\ Advance
  /\ UNCHANGED <<store, lastTimestamps, newTimestamps, latestValues,
                 successfulSensors, exitCode, configOk,
                 metadataWrite, storeReads, startCount, beside>>

\* The update rejects: nothing is written; caught, logged, next sensor.
UpdateFail ==
  /\ pc = "update"
  /\ Advance
  /\ UNCHANGED <<store, lastTimestamps, newTimestamps, latestValues,
                 totalNewRecords, successfulSensors, exitCode, configOk,
                 metadataWrite, storeReads, startCount, beside>>

\* ---- main: after the loop ----

\* weatherData/metadata is set.
MetadataOk ==
  /\ pc = "metadata"
  /\ pc' = "history"
  /\ metadataWrite' = "ok"
  /\ UNCHANGED <<store, locals, exitCode, configOk, startCount, beside>>

\* The metadata write throws: process.exit(1).
MetadataFail ==
  /\ pc = "metadata"
  /\ pc' = "exited"
  /\ exitCode' = 1
  /\ metadataWrite' = "failed"
  /\ UNCHANGED <<store, locals, configOk, startCount, beside>>

\* The history entry is written, or its failure is only warned about;
\* process.exit(0) either way.
HistoryDone ==
  /\ pc = "history"
  /\ pc' = "exited"
  /\ exitCode' = 0
  /\ UNCHANGED <<store, locals, configOk, metadataWrite, startCount, beside>>

\* The process is killed from outside (a job timeout) between two steps.
Kill ==
  /\ pc \notin {"idle", "exited"}
  /\ pc' = "idle"
  /\ exitCode' = 0
  /\ configOk' = TRUE
  /\ metadataWrite' = "none"
  /\ ResetLocals
  /\ UNCHANGED store
  /\ startCount' = CountSnapshot
  /\ UNCHANGED beside

\* The steps in which nothing fails.
Happy ==
  \/ StartRun
  \/ LoadMetaOk
  \/ NoRecords
  \/ NoNewRecords
  \/ Merge
  \/ ReadCountOk
  \/ UpdateOk
  \/ MetadataOk
  \/ HistoryDone

\* The steps in which upstream, the store or the host fails.
Faults ==
  \/ ConfigFail
  \/ LoadMetaFail
  \/ FetchRateLimited
  \/ FetchThrows
  \/ ResultUndefined
  \/ ReadCountFail
  \/ UpdateFail
  \/ MetadataFail
  \/ Kill

Next ==
  \/ Happy
  \/ Faults
  \/ \E records \in Responses : FetchOk(records)

Spec == Init /\ [][Next]_vars

\* ---- upstream never repeats a timestamp within one answer ----

HasUniqueTimestamps(records) ==
  \A j, k \in 1..Len(records) :
    j # k => records[j].timestamp # records[k].timestamp

UniqueResponses == {r \in Responses : HasUniqueTimestamps(r)}

NextUnique ==
  \/ Happy
  \/ Faults
  \/ \E records \in UniqueResponses : FetchOk(records)

UniqueSpec == Init /\ [][NextUnique]_vars

\* ---- no failure at all, and every step is eventually taken ----

NextLive ==
  \/ Happy
  \/ \E records \in UniqueResponses : FetchOk(records)

LiveSpec == Init /\ [][NextLive]_vars /\ WF_vars(NextLive)

\* ---- the merge step alone, on wider inputs ----

MergeReading == [timestamp : 1..(MaxTs + 2), value : Values]
MergeResponses == UNION {[1..n -> MergeReading] : n \in 0..(MaxFetch + 1)}
MergeWatermarks ==
  {EmptyObject} \cup
  {SetKey(EmptyObject, 1, [lastTimestamp |-> ts, latestValue |-> v]) :
     ts \in 1..(MaxTs + 2), v \in Values}

\* main holds a fetched list for the first sensor and a loaded watermark.
MergeInit ==
  /\ sensorData = [s \in Sensors |-> EmptyObject]
  /\ recordCount = EmptyObject
  /\ sensorMeta = EmptyObject
  /\ pc = "fetched"
  /\ lastTimestamps \in MergeWatermarks
  /\ i = 1
  /\ attempt = 0
  /\ result \in {OkResult(r) : r \in MergeResponses}
  /\ trulyNewRecords = <<>>
  /\ newTimestamps = EmptyObject
  /\ latestValues = EmptyObject
  /\ currentCount = 0
  /\ totalNewRecords = 0
  /\ successfulSensors = 0
  /\ exitCode = 0
  /\ configOk = TRUE
  /\ metadataWrite = "none"
  /\ storeReads = [NoReads EXCEPT !.meta = 1]
  /\ rateLimited = 0
  /\ waitTime = 0
  /\ startCount = [s \in Sensors |-> 0]
  /\ other = OtherIdle
  /\ oldData = [s \in Sensors |-> <<>>]

MergeNext ==
  \/ NoRecords
  \/ NoNewRecords
  \/ Merge

MergeSpec == MergeInit /\ [][MergeNext]_vars

\* ---- two runs of the script at once: a second run appends to one sensor, ----
\* ---- once, at any moment of this run's life                              ----

\* What the second run can hold as its sorted increment.
OtherIncrements == {SortByTimestamp(r) : r \in UniqueResponses} \ {<<>>}

\* The second run has a non-empty increment for sensor s and reads the count.
OtherReadCount(s, records) ==
  /\ other.pc = "idle"
  /\ other' = [pc |-> "update", sensor |-> s, currentCount |-> CountSnapshot[s],
               trulyNewRecords |-> records]
  /\ UNCHANGED <<store, pc, locals, exitCode, configOk, metadataWrite,
                 startCount, oldData>>

\* (mutant) the second run appends at the count the store holds at the
\* moment of the write, as a transaction would.
OtherUpdateFresh ==
  /\ other.pc = "update"
  /\ NewCount(CountSnapshot[other.sensor], other.trulyNewRecords) <= MaxLog
  /\ sensorData' = [sensorData EXCEPT
                      ![other.sensor] = AppendAt(@, CountSnapshot[other.sensor],
                                                 other.trulyNewRecords)]
  /\ recordCount' = SetKey(recordCount, other.sensor,
                           NewCount(CountSnapshot[other.sensor],
                                    other.trulyNewRecords))
  /\ sensorMeta' = SetKey(sensorMeta, other.sensor,
                          NewWatermark(other.trulyNewRecords))
  /\ other' = [OtherIdle EXCEPT !.pc = "done"]
  /\ UNCHANGED <<pc, locals, exitCode, configOk, metadataWrite, startCount,
                 oldData>>

\* The second run's database.ref().update(updates), at the count it read.
OtherUpdateOk ==
  /\ other.pc = "update"
  /\ NewCount(other.currentCount, other.trulyNewRecords) <= MaxLog
  /\ sensorData' = [sensorData EXCEPT
                      ![other.sensor] = AppendAt(@, other.currentCount,
                                                 other.trulyNewRecords)]
  /\ recordCount' = SetKey(recordCount, other.sensor,
                           NewCount(other.currentCount, other.trulyNewRecords))
  /\ sensorMeta' = SetKey(sensorMeta, other.sensor,
                          NewWatermark(other.trulyNewRecords))
  /\ other' = [OtherIdle EXCEPT !.pc = "done"]
  /\ UNCHANGED <<pc, locals, exitCode, configOk, metadataWrite, startCount,
                 oldData>>

\* The second run's update rejects.
OtherUpdateFail ==
  /\ other.pc = "update"
  /\ other' = OtherIdle
  /\ UNCHANGED <<store, pc, locals, exitCode, configOk, metadataWrite,
                 startCount, oldData>>

ConcNext ==
  \/ Happy
  \/ \E records \in UniqueResponses : FetchOk(records)
  \/ \E s \in Sensors, records \in OtherIncrements : OtherReadCount(s, records)
  \/ OtherUpdateOk
  \/ OtherUpdateFail

ConcSpec == Init /\ [][ConcNext]_vars

\* ---- the earlier script (full read, dedup, merge, sort, set) fed the ----
\* ---- same answers as this one                                      ----

\* newRecords.filter(r => !existingTimestamps.has(r.timestamp))
OldFilter(existingData, newRecords) ==
  LET existingTimestamps ==
        {existingData[k].timestamp : k \in 1..Len(existingData)}
  IN SelectSeq(newRecords, LAMBDA r : r.timestamp \notin existingTimestamps)

\* mergedData = [...existingData, ...trulyNewRecords], sorted by timestamp;
\* it is what set() stores as data, with recordCount = mergedData.length.
OldMerge(existingData, newRecords) ==
  SortByTimestamp(existingData \o OldFilter(existingData, newRecords))

\* One 2xx answer carrying `records`, given to both scripts: this one holds
\* it as its result, the earlier one merges it into its log at once.
RefFetch(records) ==
  /\ pc = "fetch"
  /\ attempt < retries
  /\ pc' = "fetched"
  /\ result' = OkResult(records)
  /\ attempt' = 0
  /\ rateLimited' = 0
  /\ waitTime' = 0
  /\ oldData' = [oldData EXCEPT ![i] = OldMerge(@, records)]
  /\ UNCHANGED <<store, lastTimestamps, i, trulyNewRecords,
                 newTimestamps, latestValues, currentCount, totalNewRecords,
                 successfulSensors, exitCode, configOk,
                 metadataWrite, storeReads, startCount, other>>

RefNext ==
  \/ Happy
  \/ \E records \in UniqueResponses : RefFetch(records)

RefSpec == Init /\ [][RefNext]_vars

\* ======================= properties =======================

\* recordCount as main reads it.
CountOf(s) == IF s \in DOMAIN recordCount THEN recordCount[s] ELSE 0

\* How many stored records of sensor s carry timestamp ts.
Occurrences(s, ts) ==
  Cardinality({k \in DOMAIN sensorData[s] : sensorData[s][k].timestamp = ts})

\* C1: the persisted log of a sensor never holds two readings with the same
\* timestamp, whatever failed in the runs so far (here even when upstream
\* never repeats a timestamp within one answer).
C1_NoDuplicateTimestamps ==
  \A s \in Sensors : \A ts \in Timestamps : Occurrences(s, ts) <= 1

\* C2: no data loss: every reading upstream returns (with a timestamp that is
\* unique in its answer) eventually is in the sensor's log exactly once, also
\* when its timestamp is at or below the watermark already persisted.
C2_NoDataLoss ==
  \A s \in Sensors : \A ts \in Timestamps :
    (/\ pc = "fetched"
     /\ i = s
     /\ result.defined
     /\ \E k \in 1..Len(result.data) : result.data[k].timestamp = ts)
    ~> (Occurrences(s, ts) = 1)

\* C3: a sensor's persisted lastTimestamp never decreases, also in a run whose
\* bulk watermark read failed.
C3_MonotonicWatermark ==
  [][\A s \in Sensors : LastTs(sensorMeta', s) >= LastTs(sensorMeta, s)]_vars

\* C4: the stored log of every sensor is sorted ascending by timestamp after
\* every successful append.
C4_LogSorted ==
  \A s \in Sensors : \A j, k \in DOMAIN sensorData[s] :
    j < k => sensorData[s][j].timestamp <= sensorData[s][k].timestamp

\* C5: recordCount equals the number of stored readings, and the stored
\* positions are exactly 0 .. recordCount-1.
C5_CountMatchesLog ==
  \A s \in Sensors :
    /\ DOMAIN sensorData[s] = 0..(CountOf(s) - 1)
    /\ Cardinality(DOMAIN sensorData[s]) = CountOf(s)

\* Two appends have landed for one sensor.
C5_Witness ==
  \E s \in Sensors :
    /\ CountOf(s) = 2
    /\ s \in DOMAIN lastTimestamps
    /\ s \in DOMAIN newTimestamps
    /\ pc = "metadata"

\* The persisted watermark of s is the timestamp of a stored reading.
WatermarkInLog(s) ==
  s \in DOMAIN sensorMeta =>
    \E k \in DOMAIN sensorData[s] :
      sensorData[s][k].timestamp = sensorMeta[s].lastTimestamp

\* This step changed sensorMeta/<s>.
MetaWritten(s) ==
  /\ s \in DOMAIN sensorMeta'
  /\ (s \in DOMAIN sensorMeta => sensorMeta'[s] # sensorMeta[s])

\* This step stored new records of s, the newest of them being the watermark.
RecordsWritten(s) ==
  /\ s \in DOMAIN recordCount'
  /\ recordCount'[s] > CountOf(s)
  /\ sensorData'[s][recordCount'[s] - 1].timestamp = sensorMeta'[s].lastTimestamp

\* C6: the watermark is never ahead of the log: the persisted lastTimestamp is
\* 0 (absent) or the timestamp of a stored reading, after every step (a failed
\* append and a kill included), and sensorMeta changes only in a step that
\* also stores the records.
C6_WatermarkNeverAhead ==
  [][\A s \in Sensors :
       /\ WatermarkInLog(s)'
       /\ MetaWritten(s) => RecordsWritten(s)]_vars

\* An append failed after the new watermark was computed: the store keeps
\* the older watermark.
C6_Witness ==
  \E s \in Sensors :
    /\ s \in DOMAIN sensorMeta
    /\ s \in DOMAIN newTimestamps
    /\ newTimestamps[s].lastTimestamp > sensorMeta[s].lastTimestamp
    /\ i > s

\* C7: fetchSensor always returns a result object, whose readings are empty
\* when it carries the error tag; it never returns nothing.
C7_FetchReturnsResult ==
  pc = "fetched" => (result.defined /\ (result.error => result.data = <<>>))

\* The fetch of the sensor in turn failed (error result or no result).
FetchFailed == pc = "fetched" /\ (~result.defined \/ result.error)

\* Sensor b's entry of a JS object is the same before and after the step.
SameEntry(obj, objNext, b) ==
  /\ (b \in DOMAIN objNext) = (b \in DOMAIN obj)
  /\ (b \in DOMAIN obj => objNext[b] = obj[b])

\* C8: isolation: the step main takes on a failed fetch of sensor A leaves the
\* store and every other sensor's contribution to the summary as they are and
\* goes on to the next sensor (unless the process is killed there).
C8_Isolation ==
  [][FetchFailed =>
       \/ pc' = "idle"
       \/ /\ UNCHANGED store
          /\ \A b \in Sensors \ {i} : SameEntry(latestValues, latestValues', b)
          /\ totalNewRecords' = totalNewRecords
          /\ i' = i + 1
          /\ pc' \in {"fetch", "metadata"}]_vars

\* How many times reading r occurs in a list.
CountIn(records, r) == Cardinality({k \in 1..Len(records) : records[k] = r})

\* The spec's scenario: watermark 100 and four fetched readings.
ScenarioFetched ==
  <<[timestamp |-> 90, value |-> 1], [timestamp |-> 100, value |-> 2],
    [timestamp |-> 110, value |-> 3], [timestamp |-> 120, value |-> 4]>>

\* C9: merge: the increment holds exactly the fetched readings with a timestamp
\* strictly above the loaded watermark, sorted ascending, and the new watermark
\* is the greatest increment timestamp with a value stored at that timestamp.
C9_MergeCorrect ==
  /\ Increment(ScenarioFetched, 100) = SubSeq(ScenarioFetched, 3, 4)
  /\ NewWatermark(Increment(ScenarioFetched, 100)) =
       [lastTimestamp |-> 120, latestValue |-> 4]
  /\ pc = "readCount" =>
       LET lastTs == LastTs(lastTimestamps, i)
           fetched == result.data
           inc == trulyNewRecords
       IN /\ inc # <<>>
          /\ \A k \in 1..Len(inc) : inc[k].timestamp > lastTs
          /\ \A k \in 1..Len(fetched) :
               CountIn(inc, fetched[k]) =
                 IF fetched[k].timestamp > lastTs
                   THEN CountIn(fetched, fetched[k]) ELSE 0
          /\ \A k \in 1..Len(inc) :
               CountIn(inc, inc[k]) = CountIn(fetched, inc[k])
          /\ \A j, k \in 1..Len(inc) :
               j < k => inc[j].timestamp <= inc[k].timestamp
          /\ \A k \in 1..Len(inc) :
               inc[k].timestamp <= newTimestamps[i].lastTimestamp
          /\ \E k \in 1..Len(inc) :
               /\ inc[k].timestamp = newTimestamps[i].lastTimestamp
               /\ inc[k].value = newTimestamps[i].latestValue

\* Three fetched readings out of order, one at or below the watermark.
C9_Witness ==
  /\ pc = "readCount"
  /\ Len(result.data) = 3
  /\ Len(trulyNewRecords) = 2
  /\ LastTs(lastTimestamps, i) > 0
  /\ result.data[1].timestamp > result.data[3].timestamp
  /\ result.data[3].timestamp > LastTs(lastTimestamps, i)

\* C10: idempotence: after a successful append, the merge of the same fetched
\* window against the watermark just persisted is empty, and a step of main
\* with an empty increment leaves log, recordCount and watermark unchanged.
C10_Idempotent ==
  [][/\ (pc = "update" /\ recordCount' # recordCount) =>
          FilterNew(result.data, LastTs(sensorMeta', i)) = <<>>
     /\ (/\ pc = "fetched"
         /\ result.defined
         /\ FilterNew(result.data, LastTs(lastTimestamps, i)) = <<>>) =>
          UNCHANGED store]_vars

\* A later run fetched two readings that are both stored already and finds
\* nothing new against the persisted watermark.
C10_Witness ==
  /\ pc = "fetched"
  /\ result.defined
  /\ Len(result.data) = 2
  /\ i \in DOMAIN lastTimestamps
  /\ i \in DOMAIN sensorMeta
  /\ lastTimestamps[i] = sensorMeta[i]
  /\ \A k \in 1..2 : \E j \in DOMAIN sensorData[i] : sensorData[i][j] = result.data[k]
  /\ result.data[1].timestamp # result.data[2].timestamp
  /\ FilterNew(result.data, LastTs(lastTimestamps, i)) = <<>>

\* The spec's scenario: a log of 50 records and an increment of two.
ScenarioLog == [k \in 0..49 |-> [timestamp |-> k + 1, value |-> 1]]
ScenarioIncrement ==
  <<[timestamp |-> 51, value |-> 1], [timestamp |-> 52, value |-> 2]>>

\* C11: append placement: a successful append of n records at recordCount c
\* writes the records at positions c .. c+n-1 in order, sets recordCount to
\* c+n and leaves every position below c (and every other sensor) unchanged;
\* two records at recordCount 50 land at 50 and 51 and the count becomes 52.
C11_AppendPlacement ==
  [][/\ DOMAIN AppendAt(ScenarioLog, 50, ScenarioIncrement) = 0..51
     /\ AppendAt(ScenarioLog, 50, ScenarioIncrement)[50] = ScenarioIncrement[1]
     /\ AppendAt(ScenarioLog, 50, ScenarioIncrement)[51] = ScenarioIncrement[2]
     /\ NewCount(50, ScenarioIncrement) = 52
     /\ (pc = "update" /\ recordCount' # recordCount) =>
          LET c == CountOf(i)
              n == Len(trulyNewRecords)
          IN /\ n > 0
             /\ recordCount'[i] = c + n
             /\ \A k \in 0..(n - 1) :
                  /\ (c + k) \in DOMAIN sensorData'[i]
                  /\ sensorData'[i][c + k] = trulyNewRecords[k + 1]
             /\ \A k \in DOMAIN sensorData[i] :
                  k < c => sensorData'[i][k] = sensorData[i][k]
             /\ \A s \in Sensors \ {i} :
                  /\ sensorData'[s] = sensorData[s]
                  /\ SameEntry(recordCount, recordCount', s)]_vars

\* This run appended one record to the first sensor behind an older one.
C11_Witness ==
  /\ pc = "fetch"
  /\ i = 2
  /\ CountOf(1) = 2
  /\ totalNewRecords = 1
  /\ sensorData[1][0].timestamp < sensorData[1][1].timestamp

\* C12: when the recordCount read or the update fails for a sensor, its
\* persisted watermark is not advanced, its latest value is not put into
\* latestValues, and the run goes on with the next sensor.
C12_FailedAppendLeavesSummary ==
  [][(/\ pc \in {"readCount", "update"}
      /\ pc' # "idle"
      /\ recordCount' = recordCount
      /\ i' = i + 1) =>
        /\ UNCHANGED store
        /\ i \notin DOMAIN latestValues'
        /\ pc' \in {"fetch", "metadata"}]_vars

\* C15: when the fetch of a sensor returns no readings, nothing is written to
\* its log or watermark, and the sensor is in latestValues exactly when its
\* loaded watermark carried a latest value, which is then the value reported.
C15_EmptyFetch ==
  [][(/\ pc = "fetched"
      /\ result.defined
      /\ result.data = <<>>
      /\ pc' # "idle") =>
        /\ UNCHANGED store
        /\ newTimestamps' = newTimestamps
        /\ trulyNewRecords' = <<>>
        /\ (i \in DOMAIN latestValues') = (i \in DOMAIN lastTimestamps)
        /\ i \in DOMAIN lastTimestamps =>
             latestValues'[i] = lastTimestamps[i].latestValue]_vars

\* The second sensor's fetch failed and its loaded watermark carries a value,
\* while the first sensor, never stored, was passed over without one.
C15_Witness ==
  /\ pc = "fetched"
  /\ i = 2
  /\ result.error
  /\ 2 \in DOMAIN lastTimestamps
  /\ 1 \notin DOMAIN lastTimestamps
  /\ 1 \notin DOMAIN latestValues
  /\ 1 \notin DOMAIN newTimestamps

\* C17: when upstream returned readings for a sensor and none is newer than
\* the watermark, latestValues gets the value of a fetched reading with the
\* greatest timestamp, in whatever order upstream listed the readings, and the
\* store is left unchanged.
C17_LatestValueOfNewest ==
  [][(/\ pc = "fetched"
      /\ result.defined
      /\ result.data # <<>>
      /\ FilterNew(result.data, LastTs(lastTimestamps, i)) = <<>>
      /\ pc' # "idle") =>
        /\ UNCHANGED store
        /\ i \in DOMAIN latestValues'
        /\ \E k \in 1..Len(result.data) :
             /\ \A j \in 1..Len(result.data) :
                  result.data[j].timestamp <= result.data[k].timestamp
             /\ latestValues'[i] = result.data[k].value]_vars

\* C18: two readings with equal timestamps in one fetch count as one record:
\* the increment to be appended holds at most one reading per timestamp.
C18_OneReadingPerTimestamp ==
  pc \in {"readCount", "update"} => HasUniqueTimestamps(trulyNewRecords)

\* C19: the retry loop is a bounded state machine: every request is made at an
\* attempt number below retries, a retry raises the attempt number by one, and
\* the loop ends in Success or ExhaustedFail (a result object).
C19_BoundedRetry ==
  [][(pc = "fetch" /\ pc' # "idle") =>
        /\ attempt < retries
        /\ \/ /\ pc' = "fetch"
              /\ attempt' = attempt + 1
              /\ attempt' < retries
           \/ /\ pc' = "fetched"
              /\ result'.defined]_vars

\* The run under way, or just ended, passed the configuration checks and has
\* issued its sensorMeta read.
PastLoadMeta ==
  \/ pc \in {"fetch", "fetched", "readCount", "update", "metadata", "history"}
  \/ pc = "exited" /\ configOk

\* C13: every run that passes the configuration checks attempts the write of
\* weatherData/metadata, whatever fetch and append failures it met: a run that
\* has ended after passing the checks has made the attempt.
C13_SummaryWriteAttempted ==
  (pc = "exited" /\ configOk) => metadataWrite # "none"

\* C14: the exit status is non-zero if and only if the configuration checks
\* failed or the write of weatherData/metadata failed.
C14_ExitCode ==
  pc = "exited" =>
    ((exitCode # 0) <=> (~configOk \/ metadataWrite = "failed"))

\* C16: a run reads sensorMeta exactly once, before any sensor is processed;
\* it never reads a log's data; it reads a sensor's recordCount at most once,
\* and only for a sensor that has a non-empty increment to append.
C16_ReadsAreBounded ==
  /\ storeReads.data = 0
  /\ storeReads.meta = IF PastLoadMeta THEN 1 ELSE 0
  /\ pc = "loadMeta" => i = 1 /\ latestValues = EmptyObject
  /\ \A s \in Sensors :
       /\ storeReads.count[s] <= 1
       /\ storeReads.count[s] = 1 =>
            /\ s \in DOMAIN newTimestamps
            /\ s < i \/ (s = i /\ pc = "update")
       /\ (s = i /\ pc = "update") =>
            /\ storeReads.count[s] = 1
            /\ trulyNewRecords # <<>>

\* C16's case: the run is over, the first sensor's recordCount was read once
\* and the second sensor, which had nothing new, cost no read at all.
C16_Witness ==
  /\ pc = "metadata"
  /\ storeReads = [meta |-> 1, data |-> 0,
                   count |-> [s \in Sensors |-> IF s = 1 THEN 1 ELSE 0]]
  /\ 2 \in DOMAIN latestValues

\* C20: 429 answers do not use up the failure budget: a fetchSensor call ends
\* only in a success or in the error result, and in the error result only
\* when the failing request is the retries-th transient failure of the call.
C20_RateLimitKeepsBudget ==
  [][(pc = "fetch" /\ pc' = "fetched") =>
        /\ result'.defined
        /\ result'.error => (attempt - rateLimited) + 1 = retries]_vars

\* A request of fetchSensor was answered 429 in this step.
RateLimitedStep ==
  /\ pc = "fetch"
  /\ \/ pc' = "fetch" /\ rateLimited' = rateLimited + 1
     \/ pc' = "fetched" /\ ~result'.defined

\* C21: the wait is a function of the attempt number: 2000 * 2^n ms after a
\* 429 answer on attempt n, 1000 ms after any other failure on a non-final
\* attempt, and no wait after the attempt that ends the fetch.
C21_Backoff ==
  [][(pc = "fetch" /\ pc' # "idle") =>
        /\ RateLimitedStep => waitTime' = 2000 * (2 ^ attempt)
        /\ (pc' = "fetch" /\ ~RateLimitedStep) => waitTime' = 1000
        /\ pc' = "fetched" => waitTime' = 0]_vars

\* What C22 says of the update that lands records at count for sensor s.
\* Count still current: no position below recordCount is written.  Count
\* stale: the update writes again over the positions from count on, and when
\* it is the shorter one recordCount ends below the number of stored readings.
AppendLands(s, count, records) ==
  /\ count = CountOf(s) =>
       \A k \in DOMAIN sensorData[s] :
         k < CountOf(s) =>
           k \in DOMAIN sensorData'[s] /\ sensorData'[s][k] = sensorData[s][k]
  /\ count < CountOf(s) =>
       /\ count \in DOMAIN sensorData[s]
       /\ \A k \in count..(CountOf(s) - 1) :
            k < count + Len(records) => sensorData'[s][k] = records[k - count + 1]
       /\ count + Len(records) < CountOf(s) =>
            recordCount'[s] < Cardinality(DOMAIN sensorData'[s])

\* C22: the read-count-then-write append is safe only under a single writer.
\* An update that lands on the count it read while that count is still
\* current leaves every position below recordCount alone; one that lands
\* after another update of the same sensor overwrites records, or leaves
\* recordCount below the number of stored readings.
C22_SingleWriterOnly ==
  [][/\ (pc = "update" /\ other' = other /\ recordCount' # recordCount) =>
          AppendLands(i, currentCount, trulyNewRecords)
     /\ (other.pc = "update" /\ other'.pc = "done") =>
          AppendLands(other.sensor, other.currentCount,
                      other.trulyNewRecords)]_vars

\* C22's case: both runs read the same count, one update landed two records,
\* then the other landed one over the first of them: recordCount is below
\* the number of stored readings.
C22_Witness ==
  /\ other.pc = "done"
  /\ \E s \in Sensors :
       /\ CountOf(s) = 1
       /\ Cardinality(DOMAIN sensorData[s]) = 2

\* The growth of the persisted recordCount since the process started, summed
\* over the sensors of S.
RECURSIVE CountGrowth(_)
CountGrowth(S) ==
  IF S = {} THEN 0
  ELSE LET s == CHOOSE x \in S : TRUE
       IN (CountOf(s) - startCount[s]) + CountGrowth(S \ {s})

\* C23: totalNewRecords is the sum over the sensors of the growth of the
\* persisted recordCount during the run, at every point of the run and so at
\* its end: only the records of an update that succeeded are counted.
C23_TotalIsCountGrowth ==
  totalNewRecords = CountGrowth(Sensors)

\* C23's case: the loop is over, the first sensor's update landed one record
\* and the second sensor's append of a non-empty increment failed.
C23_Witness ==
  /\ pc = "metadata"
  /\ totalNewRecords = 1
  /\ CountOf(1) = startCount[1] + 1
  /\ 2 \in DOMAIN newTimestamps
  /\ CountOf(2) = startCount[2]

\* sensorData/<s>/data as the array of its first recordCount entries.
LogOf(s) == [k \in 1..CountOf(s) |-> sensorData[s][k - 1]]

\* C24: started from an empty store, with no store failure and the same
\* answers, the watermark script leaves after every run the log (data and
\* recordCount) that the earlier full-read script leaves.
C24_RefinesFullRead ==
  pc = "exited" =>
    \A s \in Sensors :
      /\ DOMAIN sensorData[s] = 0..(CountOf(s) - 1)
      /\ LogOf(s) = oldData[s]
====
